---- MODULE Spec2Model ----
(***************************************************************************)
(* The hoop mission modes of src/autonomous_modes: LaunchAndScan,          *)
(* PlanRoute, GoToPreApproach, CenterInImage, CommitTraverse, ReturnHome,  *)
(* driven through the enter / update / check_status lifecycle.             *)
(*                                                                         *)
(* Representation.                                                         *)
(*  - A Python dict is a record with the dict's keys as fields; a Python   *)
(*    tuple or list met where a dict may also occur (a hoop or detection   *)
(*    entry) is the record [tuple |-> <<...>>].                            *)
(*  - An optional value is a sequence: <<>> is None, a point is <<x,y,z>>. *)
(*    A point is truthy in Python (a non-empty tuple, or a pose object),   *)
(*    None is falsy, so "if not v" is v = <<>>.                            *)
(*  - Lengths are fixed-point integers, Unit to one world unit.  Distances *)
(*    are compared through their squares.                                  *)
(*  - Time is in whole seconds; now is the clock at the last handler call  *)
(*    of a mode that keeps time (LaunchAndScan, CenterInImage).            *)
(*  - A handler's inputs (the pose, the detections, the seconds passed,    *)
(*    the vehicle primitives that work) are parameters of its action; the  *)
(*    values it read stay in local_position, dets and now.                 *)
(***************************************************************************)
EXTENDS Integers, Sequences, FiniteSets

VARIABLES
    \* --- the shared context: attributes of the uav object
    planned_route,      \* uav.planned_route: sequence of route entries
    hoops_discovered,   \* uav.hoops_discovered: sequence of hoop entries
    hoops_traversed,    \* uav.hoops_traversed: sequence of route entries
    has_home_pose,      \* whether uav has an attribute home_pose at all
    home_pose,          \* uav.home_pose: <<>> (None, or no attribute) or a point
    local_position,     \* uav.local_position as last read: <<>> or a point
    \* --- the environment as last read by a handler
    now,                \* the clock
    dets,               \* what get_latest_vision_detections returned
    cmd,                \* the vehicle commands the last handler call issued, in order
    \* --- the sequencer
    mode,               \* the active mode, or "none"
    pc,                 \* "idle", "entered", "updated", "checked", "raised"
    status,             \* the last check_status result, or "none"
    \* --- PlanRoute
    points,             \* PlanRoute.points (constructor argument): <<>> is None
    max_targets,        \* PlanRoute.max_targets (constructor argument)
    route,              \* PlanRoute.route
    \* --- LaunchAndScan
    collected,          \* LaunchAndScan.collected
    scanned_deg,        \* LaunchAndScan.scanned_deg
    last_time,          \* LaunchAndScan.last_time
    scan_home_pose,     \* LaunchAndScan.home_pose
    \* --- CenterInImage
    start_time,         \* CenterInImage.start_time: <<>> or <<t>>
    gains,              \* CenterInImage.kx, ky, kz, kyaw (constructor arguments)
    \* --- GoToPreApproach
    target,             \* GoToPreApproach.target
    target_hoop,        \* GoToPreApproach.target_hoop: <<>> or <<hoop>>
    \* --- CommitTraverse
    start,              \* CommitTraverse.start
    end,                \* CommitTraverse.end
    \* --- ReturnHome
    home,               \* ReturnHome.home
    \* --- history (not program state)
    planned_written,    \* the route PlanRoute wrote last
    traversed_at_plan,  \* Len(hoops_traversed) when it was written
    entry_pose,         \* the pose on_enter of the active ReturnHome read
    prior_route         \* planned_route before on_enter of the active PlanRoute

shared == <<planned_route, hoops_discovered, hoops_traversed, has_home_pose, home_pose>>
env == <<local_position, now, dets, cmd>>
sequencer == <<mode, pc, status>>
planVars == <<points, max_targets, route>>
scanVars == <<collected, scanned_deg, last_time, scan_home_pose>>
centerVars == <<start_time, gains>>
gotoVars == <<target, target_hoop>>
commitVars == <<start, end>>
homeVars == <<home>>
hist == <<planned_written, traversed_at_plan, entry_pose, prior_route>>
vars == <<shared, env, sequencer, planVars, scanVars, centerVars, gotoVars, commitVars,
          homeVars, hist>>

----------------------------------------------------------------------------
(* Numbers and geometry *)

\* Fixed-point denominator: Unit is 1.0 world unit.
Unit == 100

None == <<>>

Pt(x, y, z) == <<x * Unit, y * Unit, z * Unit>>

Abs(x) == IF x < 0 THEN -x ELSE x

Min(a, b) == IF a <= b THEN a ELSE b

Max(a, b) == IF a >= b THEN a ELSE b

\* a / b rounded to the nearest integer, b > 0
RoundDiv(a, b) == IF a >= 0 THEN (2 * a + b) \div (2 * b) ELSE -((2 * (-a) + b) \div (2 * b))

RECURSIVE SqrtBetween(_, _, _)
SqrtBetween(n, lo, hi) ==
    IF lo >= hi THEN lo
    ELSE LET mid == (lo + hi + 1) \div 2
         IN  IF mid * mid <= n THEN SqrtBetween(n, mid, hi) ELSE SqrtBetween(n, lo, mid - 1)

\* floor of the square root; the search stays below the root of 2^31
ISqrt(n) == SqrtBetween(n, 0, Min(n, 46340))

\* math.hypot on fixed-point lengths
Hypot(vx, vy) == ISqrt(vx * vx + vy * vy)

\* math.dist(p, q) squared
DistSq(p, q) ==
    (p[1] - q[1]) * (p[1] - q[1]) + (p[2] - q[2]) * (p[2] - q[2]) + (p[3] - q[3]) * (p[3] - q[3])

\* Denominator of a direction component (a cosine, a unit vector's coordinate)
NormScale == Unit * Unit

\* math.cos and math.sin of a bearing, times NormScale; bearings are held in
\* degrees and the model uses the multiples of 90
Cos(b) == CASE b % 360 = 0 -> NormScale [] b % 360 = 180 -> -NormScale [] OTHER -> 0

Sin(b) == CASE b % 360 = 90 -> NormScale [] b % 360 = 270 -> -NormScale [] OTHER -> 0

\* isinstance(v, dict), for an entry that is a dict or a tuple
IsDict(v) == "tuple" \notin DOMAIN v

\* d.get(k, default)
Get(d, k, default) == IF k \in DOMAIN d THEN d[k] ELSE default

----------------------------------------------------------------------------
(* The sequencer's contract: enter once, then update and check_status in   *)
(* turn until check_status reports complete; the active mode may be exited *)
(* at any tick.                                                            *)

Modes == {"LaunchAndScan", "PlanRoute", "GoToPreApproach", "CenterInImage",
          "CommitTraverse", "ReturnHome"}

CanEnter == pc = "idle"

CanUpdate(m) == mode = m /\ (pc = "entered" \/ (pc = "checked" /\ status = "continue"))

CanCheck(m) == mode = m /\ pc = "updated"

Entered(m) == mode' = m /\ pc' = "entered" /\ status' = "none"

Updated == pc' = "updated" /\ UNCHANGED <<mode, status>>

Checked(s) == pc' = "checked" /\ status' = s /\ UNCHANGED mode

\* an exception leaves the handler
Raised == pc' = "raised" /\ UNCHANGED <<mode, status>>

\* The vehicle interface's primitives; a call of one that is missing (or
\* fails) raises and the handler falls back.  position_yaw is
\* publish_position_setpoint accepting a yaw.
AllPrims ==
    {"heartbeat", "arm", "takeoff", "publish_position_setpoint", "position_yaw",
     "publish_velocity_setpoint", "set_velocity", "set_yaw_rate"}

PrimSets == {AllPrims, {}, {"arm", "publish_position_setpoint", "set_velocity", "set_yaw_rate"}}

----------------------------------------------------------------------------
(* PlanRoute *)

\* (float(p[0]), float(p[1]), float(p[2])): raises on a sequence shorter than 3
Floats3(p) == <<p[1], p[2], p[3]>>

CanFloats3(p) == Len(p) >= 3

\* the hoop list built from PlanRoute.points: a point that does not parse is skipped
RECURSIVE PointHoops(_)
PointHoops(ps) ==
    IF ps = <<>> THEN <<>>
    ELSE IF CanFloats3(Head(ps))
         THEN <<[position |-> Floats3(Head(ps))]>> \o PointHoops(Tail(ps))
         ELSE PointHoops(Tail(ps))

\* the hoops on_enter plans over: the points if any were supplied, else
\* uav.hoops_discovered
InputHoops == IF points # <<>> THEN PointHoops(points) ELSE hoops_discovered

\* whether on_enter makes a centre of hoop entry h
IsValidHoop(h) ==
    IF IsDict(h)
    THEN "position" \in DOMAIN h /\ CanFloats3(h.position)
    ELSE Len(h.tuple) >= 3

\* the centre on_enter makes of a valid hoop entry
Center(h) ==
    IF IsDict(h)
    THEN [hoop |-> h, pos |-> Floats3(h.position)]
    ELSE [hoop |-> [position |-> Floats3(h.tuple)], pos |-> Floats3(h.tuple)]

\* Centers with the try around the whole loop: the first malformed entry ends it
RECURSIVE CentersStopAtBad(_)
CentersStopAtBad(hs) ==
    IF hs = <<>> THEN <<>>
    ELSE IF IsValidHoop(Head(hs))
         THEN <<Center(Head(hs))>> \o CentersStopAtBad(Tail(hs))
         ELSE <<>>

RECURSIVE Centers(_)
Centers(hs) ==
    IF hs = <<>> THEN <<>>
    ELSE IF IsValidHoop(Head(hs))
         THEN <<Center(Head(hs))>> \o Centers(Tail(hs))
         ELSE Centers(Tail(hs))

\* the reference point on_enter starts from
StartPos(pose) == IF pose # None THEN pose ELSE <<0, 0, 0>>

\* list.sort(key = distance to ref) is stable: c goes behind every element
\* that is not farther than it
RECURSIVE InsertByDist(_, _, _)
InsertByDist(c, s, ref) ==
    IF s = <<>> THEN <<c>>
    ELSE IF DistSq(ref, Head(s).pos) <= DistSq(ref, c.pos)
         THEN <<Head(s)>> \o InsertByDist(c, Tail(s), ref)
         ELSE <<c>> \o s

RECURSIVE SortInto(_, _, _)
SortInto(s, acc, ref) ==
    IF s = <<>> THEN acc ELSE SortInto(Tail(s), InsertByDist(Head(s), acc, ref), ref)

SortByDist(s, ref) == SortInto(s, <<>>, ref)

\* NearestOrder that never moves the reference point to the chosen hoop
RECURSIVE NearestOrderFixedRef(_, _, _, _)
NearestOrderFixedRef(remaining, order, cur_pos, maxn) ==
    IF remaining # <<>> /\ Len(order) < maxn
    THEN LET sorted == SortByDist(remaining, cur_pos)
         IN  NearestOrderFixedRef(Tail(sorted), Append(order, Head(sorted)), cur_pos, maxn)
    ELSE order

\* NearestOrder with the loop bound off by one (<= max_targets)
RECURSIVE NearestOrderOneMore(_, _, _, _)
NearestOrderOneMore(remaining, order, cur_pos, maxn) ==
    IF remaining # <<>> /\ Len(order) <= maxn
    THEN LET sorted == SortByDist(remaining, cur_pos)
         IN  NearestOrderOneMore(Tail(sorted), Append(order, Head(sorted)), Head(sorted).pos, maxn)
    ELSE order

\* the while loop: sort what remains by distance to cur_pos, pop the first
RECURSIVE NearestOrder(_, _, _, _)
NearestOrder(remaining, order, cur_pos, maxn) ==
    IF remaining # <<>> /\ Len(order) < maxn
    THEN LET sorted == SortByDist(remaining, cur_pos)
             chosen == Head(sorted)
         IN  NearestOrder(Tail(sorted), Append(order, chosen), chosen.pos, maxn)
    ELSE order

\* the approach normal of a chosen item, times NormScale
Normal(item, hp) ==
    IF "bearing" \in DOMAIN item.hoop
    THEN <<Cos(item.hoop.bearing), Sin(item.hoop.bearing), 0>>
    ELSE LET vx == item.pos[1] - hp[1]
             vy == item.pos[2] - hp[2]
             h == Hypot(vx, vy)
             d == IF h = 0 THEN Unit ELSE h
         IN  <<RoundDiv(vx * NormScale, d), RoundDiv(vy * NormScale, d), 0>>

\* PlanRoute.pre_approach_dist, the constructor's default 3.5
pre_approach_dist == (7 * Unit) \div 2

RouteEntry(item, hp) ==
    LET n == Normal(item, hp)
    IN  [hoop |-> item.hoop,
         pre_approach |-> <<item.pos[1] - RoundDiv(n[1] * pre_approach_dist, NormScale),
                            item.pos[2] - RoundDiv(n[2] * pre_approach_dist, NormScale),
                            item.pos[3]>>,
         hoop_pos |-> item.pos]

\* getattr(self.uav, 'home_pose', (0.0, 0.0, 0.0))
HomeOrOrigin == IF has_home_pose THEN home_pose ELSE <<0, 0, 0>>

\* sx, sy, _ = None raises TypeError: reached by the first item without bearing
PlanRaises(order) ==
    /\ HomeOrOrigin = None
    /\ \E i \in DOMAIN order : "bearing" \notin DOMAIN order[i].hoop

Planned(order) == [i \in DOMAIN order |-> RouteEntry(order[i], HomeOrOrigin)]

\* the new route added to the one already there
WriteRouteExtending(prior, planned) == prior \o planned

\* self.uav.planned_route = planned
WriteRoute(prior, planned) == planned

PlanRoute_on_enter(pose) ==
    /\ CanEnter
    /\ local_position' = pose
    /\ cmd' = <<>>
    /\ prior_route' = planned_route
    /\ IF InputHoops = <<>>
       THEN /\ route' = <<>>
            /\ planned_route' = WriteRoute(planned_route, <<>>)
            /\ planned_written' = <<>>
            /\ traversed_at_plan' = Len(hoops_traversed)
            /\ Entered("PlanRoute")
       ELSE LET order == NearestOrder(Centers(InputHoops), <<>>, StartPos(pose), max_targets)
            IN  IF PlanRaises(order)
                THEN /\ mode' = "PlanRoute"
                     /\ pc' = "raised"
                     /\ status' = "none"
                     /\ UNCHANGED <<route, planned_route, planned_written, traversed_at_plan>>
                ELSE /\ route' = Planned(order)
                     /\ planned_route' = WriteRoute(planned_route, Planned(order))
                     /\ planned_written' = Planned(order)
                     /\ traversed_at_plan' = Len(hoops_traversed)
                     /\ Entered("PlanRoute")
    /\ UNCHANGED <<hoops_discovered, hoops_traversed, has_home_pose, home_pose, now, dets>>
    /\ UNCHANGED <<points, max_targets, scanVars, centerVars, gotoVars, commitVars, homeVars>>
    /\ UNCHANGED entry_pose

PlanRoute_on_update ==
    /\ CanUpdate("PlanRoute")
    /\ cmd' = <<>>
    /\ Updated
    /\ UNCHANGED <<shared, local_position, now, dets, planVars, scanVars, centerVars>>
    /\ UNCHANGED <<gotoVars, commitVars, homeVars, hist>>

PlanRoute_check_status ==
    /\ CanCheck("PlanRoute")
    /\ cmd' = <<>>
    /\ Checked("complete")
    /\ UNCHANGED <<shared, local_position, now, dets, planVars, scanVars, centerVars>>
    /\ UNCHANGED <<gotoVars, commitVars, homeVars, hist>>

\* on_exit is the default no-op for every mode (LaunchAndScan's only destroys
\* a vision node it never creates)
Exit ==
    /\ pc # "idle"
    /\ mode' = "none"
    /\ pc' = "idle"
    /\ status' = "none"
    /\ cmd' = <<>>
    /\ entry_pose' = None
    /\ prior_route' = <<>>
    /\ UNCHANGED <<shared, local_position, now, dets, planVars, scanVars, centerVars>>
    /\ UNCHANGED <<gotoVars, commitVars, homeVars, planned_written, traversed_at_plan>>

----------------------------------------------------------------------------
(* The state after construction, and the input domains *)

\* every sequence over S of length at most n
SeqsUpTo(S, n) == UNION {[1..k -> S] : k \in 0..n}

\* CenterInImage's default gains, in thousandths (kx = 0.002, kz = 0.5)
kx == 2

ky == 2

kz == 500

kyaw == 10

DefaultGains == [kx |-> kx, ky |-> ky, kz |-> kz, kyaw |-> kyaw]

\* the mode objects as their constructors leave them, CenterInImage's gains
\* apart
InitModeFields ==
    /\ route = <<>>
    /\ collected = <<>>
    /\ scanned_deg = 0
    /\ last_time = None
    /\ scan_home_pose = None
    /\ start_time = None
    /\ target = None
    /\ target_hoop = None
    /\ start = None
    /\ end = None
    /\ home = None

\* the mode objects as their constructors leave them with default arguments
InitModes ==
    /\ InitModeFields
    /\ gains = DefaultGains

InitSequencer ==
    /\ mode = "none"
    /\ pc = "idle"
    /\ status = "none"
    /\ entry_pose = None
    /\ prior_route = <<>>

\* the clock reads a positive time
InitEnv ==
    /\ local_position = None
    /\ now = 1
    /\ dets = <<>>
    /\ cmd = <<>>

\* longest hoop list planned over
MaxHoops == 3

\* largest max_targets PlanRoute is constructed with
MaxTargetsArg == 2

\* hoop entries PlanRoute can meet: dicts with a position, with and without a
\* bearing, a bare position tuple, and entries it must skip (a detection dict
\* without position, a position that does not parse, a short tuple)
PlanHoops ==
    { [position |-> Pt(2, 0, 0)],
      [position |-> Pt(1, 1, 0)],
      [position |-> Pt(1, 0, 0), bearing |-> 90],
      [tuple |-> Pt(1, 1, 1)],
      [ex |-> 0, ey |-> 0, radius |-> 80],
      [position |-> <<Unit, Unit>>],
      [tuple |-> <<Unit>>] }

PlanPoints == { <<Pt(2, 0, 0), <<Unit>>, Pt(1, 0, 0)>>, <<<<Unit, 0>>>> }

PlanPoses == { None, Pt(2, 1, 0) }

HomePoses == { Pt(1, 1, 0) }

\* a route left by an earlier planning
EarlierRoute ==
    << [hoop |-> [position |-> Pt(0, 2, 0), bearing |-> 0],
        pre_approach |-> <<-pre_approach_dist, 2 * Unit, 0>>,
        hoop_pos |-> Pt(0, 2, 0)] >>

InitHome ==
    \/ has_home_pose = FALSE /\ home_pose = None
    \/ has_home_pose = TRUE /\ home_pose \in {None} \cup HomePoses

InitPlan ==
    /\ InitModes
    /\ InitSequencer
    /\ InitEnv
    /\ InitHome
    /\ max_targets \in 0..MaxTargetsArg
    /\ \/ points = <<>> /\ hoops_discovered \in SeqsUpTo(PlanHoops, MaxHoops)
       \/ points \in PlanPoints /\ hoops_discovered \in SeqsUpTo({[position |-> Pt(1, 1, 0)]}, 1)
    /\ planned_route \in {<<>>, EarlierRoute}
    /\ hoops_traversed = <<>>
    /\ planned_written = planned_route
    /\ traversed_at_plan = 0

NextPlan ==
    \/ \E pose \in PlanPoses : PlanRoute_on_enter(pose)
    \/ PlanRoute_on_update
    \/ PlanRoute_check_status
    \/ Exit

SpecPlan == InitPlan /\ [][NextPlan]_vars

----------------------------------------------------------------------------
(* Properties of PlanRoute, checked under SpecPlan *)

\* PlanRoute is active and its on_enter returned normally: planned_route is
\* the route it wrote, and the inputs it read are still in the state
PlanWrote == mode = "PlanRoute" /\ pc \in {"entered", "updated", "checked"}

\* the valid input hoops, as (hoop record, position) pairs in input order
ValidInput == Centers(InputHoops)

\* a route entry as a (hoop record, position) pair
AsCenter(e) == [hoop |-> e.hoop, pos |-> e.hoop_pos]

\* how many elements of sequence s equal v
Count(s, v) == Cardinality({i \in DOMAIN s : s[i] = v})

\* the pairs of the first n entries of the route
Placed(n) == [i \in 1..n |-> AsCenter(planned_route[i])]

\* the reference point of selection step i
RefPoint(i) == IF i = 1 THEN StartPos(local_position) ELSE planned_route[i - 1].hoop_pos

\* C5: every entry of the written route is nearest to its reference point
\* (the vehicle position for the first, the previous entry's hoop otherwise)
\* among the valid input hoops not placed before it.
C5_NearestNeighbour ==
    PlanWrote =>
        \A i \in DOMAIN planned_route :
            \A k \in DOMAIN ValidInput :
                Count(ValidInput, ValidInput[k]) > Count(Placed(i - 1), ValidInput[k])
                    => DistSq(RefPoint(i), planned_route[i].hoop_pos)
                           <= DistSq(RefPoint(i), ValidInput[k].pos)

\* a route of two entries that starts with another hoop than the input does
C5_Witness ==
    /\ PlanWrote
    /\ Len(planned_route) >= 2
    /\ planned_route[1].hoop_pos # ValidInput[1].pos
    /\ planned_route[2].hoop_pos # ValidInput[2].pos

\* C6: the written route has min(number of valid input hoops, max_targets)
\* entries, every entry is an input hoop record, and no input record is used
\* more often than it occurs in the input.
C6_LengthAndNoRepeat ==
    PlanWrote =>
        /\ Len(planned_route) = Min(Len(ValidInput), max_targets)
        /\ \A i \in DOMAIN planned_route :
               /\ Count(ValidInput, AsCenter(planned_route[i])) >= 1
               /\ Count(Placed(Len(planned_route)), AsCenter(planned_route[i]))
                      <= Count(ValidInput, AsCenter(planned_route[i]))

\* more valid hoops than max_targets, and a skipped entry among the input
C6_Witness ==
    /\ PlanWrote
    /\ max_targets >= 1
    /\ Len(ValidInput) > max_targets
    /\ Len(InputHoops) > Len(ValidInput)
    /\ Len(planned_route) = max_targets

\* the valid input hoops are pairwise different, so that a hoop is known by its value
DistinctInput == \A j, k \in DOMAIN ValidInput : j # k => ValidInput[j] # ValidInput[k]

\* C7: at every selection step, no hoop that is still unplaced and stands
\* earlier in the input than the selected one is at the same distance from the
\* reference point (the first-encountered hoop wins a tie).
C7_FirstEncounteredWinsTie ==
    (PlanWrote /\ DistinctInput) =>
        \A i \in DOMAIN planned_route :
            \A j, k \in DOMAIN ValidInput :
                (/\ ValidInput[k] = AsCenter(planned_route[i])
                 /\ j < k
                 /\ Count(Placed(i - 1), ValidInput[j]) = 0)
                    => DistSq(RefPoint(i), ValidInput[j].pos)
                           # DistSq(RefPoint(i), ValidInput[k].pos)

\* C8: with no valid hoop in the input (none at all, or only malformed
\* entries) on_enter returns normally and writes the empty route, and
\* check_status reports complete; and malformed entries among valid ones leave
\* the route what it is for the valid ones alone.
C8_EmptyAndMalformed ==
    /\ (mode = "PlanRoute" /\ ValidInput = <<>>) => (pc # "raised" /\ planned_route = <<>>)
    /\ (mode = "PlanRoute" /\ pc = "checked") => status = "complete"
    /\ PlanWrote =>
           planned_route = Planned(NearestOrder(Centers(SelectSeq(InputHoops, IsValidHoop)),
                                                <<>>, StartPos(local_position), max_targets))

\* only malformed entries in the input, and check_status has answered
C8_Witness ==
    /\ mode = "PlanRoute"
    /\ pc = "checked"
    /\ Len(InputHoops) >= 2
    /\ ValidInput = <<>>
    /\ planned_written = <<>>

\* p moved back by pre_approach_dist along n, a vector of length NormScale
OffsetBack(p, n) ==
    << p[1] - RoundDiv(n[1] * pre_approach_dist, NormScale),
       p[2] - RoundDiv(n[2] * pre_approach_dist, NormScale),
       p[3] >>

\* the vector from a to b in the xy plane brought to length NormScale
UnitTowards(a, b) ==
    LET vx == b[1] - a[1]
        vy == b[2] - a[2]
    IN  <<RoundDiv(vx * NormScale, Hypot(vx, vy)), RoundDiv(vy * NormScale, Hypot(vx, vy)), 0>>

\* C17: every route entry's pre-approach point is its hoop position moved
\* back by pre_approach_dist along a non-zero normal, z unchanged: along
\* (cos b, sin b, 0) for a hoop with bearing b, along the unit vector from the
\* home pose to the hoop otherwise, and along some default when the hoop
\* stands at the home pose's (x, y); so it is never the hoop position itself.
C17_PreApproachOffNormal ==
    PlanWrote =>
        \A i \in DOMAIN planned_route :
            LET e == planned_route[i]
            IN  /\ e.pre_approach[3] = e.hoop_pos[3]
                /\ e.pre_approach # e.hoop_pos
                /\ IF "bearing" \in DOMAIN e.hoop
                   THEN e.pre_approach
                            = OffsetBack(e.hoop_pos, <<Cos(e.hoop.bearing), Sin(e.hoop.bearing), 0>>)
                   ELSE (e.hoop_pos[1] # HomeOrOrigin[1] \/ e.hoop_pos[2] # HomeOrOrigin[2])
                            => e.pre_approach
                                   = OffsetBack(e.hoop_pos, UnitTowards(HomeOrOrigin, e.hoop_pos))

\* the route as a function of what PlanRoute is given: the hoops, the vehicle
\* position, the home pose and max_targets
PlanOf(hoops, pose, hp, maxn) ==
    LET order == NearestOrder(Centers(hoops), <<>>, StartPos(pose), maxn)
    IN  [i \in DOMAIN order |-> RouteEntry(order[i], hp)]

\* C18: the route PlanRoute writes is determined by its hoop input, the
\* vehicle position, the home pose and max_targets alone: it is the same
\* whatever planned_route held before and however often PlanRoute ran.
C18_RouteFromInputsAlone ==
    PlanWrote => planned_route = PlanOf(InputHoops, local_position, HomeOrOrigin, max_targets)

\* a route written over a different, non-empty one that an earlier PlanRoute
\* activation wrote
C18_Witness ==
    /\ PlanWrote
    /\ planned_route # <<>>
    /\ prior_route # <<>>
    /\ prior_route # EarlierRoute
    /\ prior_route # planned_route

\* C24: with no home pose recorded (the field unset, or holding None),
\* on_enter of PlanRoute returns normally and writes a route of
\* min(number of valid hoops, max_targets) entries.
C24_PlansWithoutHomePose ==
    (mode = "PlanRoute" /\ home_pose = None) =>
        /\ pc # "raised"
        /\ Len(planned_route) = Min(Len(ValidInput), max_targets)

----------------------------------------------------------------------------
(* CenterInImage *)

\* the clock never reads more than MaxTime
MaxTime == 16

\* d seconds have passed since the last handler call
Clock(d) == now + d <= MaxTime /\ now' = now + d

\* CenterInImage's other constructor defaults.  Speed limits are in
\* thousandths (vmax_xy = 1.0, vmax_yaw = radians(30.0) = 0.524), pixels and
\* seconds are whole.
vmax_xy == 1000

vmax_z == 500

vmax_yaw == 524

hoop_center_tol_px == 8

hoop_radius_target_px == 80

timeout_s == 12

\* the value passed through unlimited
Unclamped(v, lo, hi) == v

clamp(v, lo, hi) == Max(lo, Min(hi, v))

\* d.get('radius', d.get('r', 0.0))
Radius(d) == Get(d, "radius", Get(d, "r", 0))

\* the velocity command on_update computes from detection d; a gain in
\* thousandths times whole pixels is a speed in thousandths, and kz (in
\* thousandths) times a height difference in Units is brought back to thousandths
ServoCommand(d) ==
    LET ex == Get(d, "ex", 0)
        ey == Get(d, "ey", 0)
        cur_z == IF local_position # None THEN local_position[3] ELSE 0
        z_target == cur_z
    IN  << clamp(-gains.kx * ex, -vmax_xy, vmax_xy),
           clamp(gains.ky * ey, -vmax_xy, vmax_xy),
           clamp(RoundDiv(gains.kz * (z_target - cur_z), Unit), -vmax_z, vmax_z),
           clamp(gains.kyaw * ex, -vmax_yaw, vmax_yaw) >>

\* the command the vehicle receives: publish_velocity_setpoint with the four
\* components, else set_velocity with the first three, else nothing
VelocityCommand(prims, v) ==
    IF "publish_velocity_setpoint" \in prims THEN <<[velocity |-> v]>>
    ELSE IF "set_velocity" \in prims THEN <<[velocity |-> <<v[1], v[2], v[3]>>]>>
    ELSE <<>>

\* a stop setpoint commanded on a tick without detection
CenterCommandOrStop(prims, ds) ==
    IF ds = <<>> THEN VelocityCommand(prims, <<0, 0, 0, 0>>)
    ELSE VelocityCommand(prims, ServoCommand(ds[1]))

\* what on_update commands on detections ds: nothing when there is none, else
\* the servo command for the first
CenterCommand(prims, ds) ==
    IF ds = <<>> THEN <<>> ELSE VelocityCommand(prims, ServoCommand(ds[1]))

\* Centered without the radius test
CenteredLoose(d) ==
    /\ Abs(Get(d, "ex", 0)) <= hoop_center_tol_px
    /\ Abs(Get(d, "ey", 0)) <= hoop_center_tol_px

\* the centring test of check_status; 0.15 * target is compared in hundredths
Centered(d) ==
    /\ Abs(Get(d, "ex", 0)) <= hoop_center_tol_px
    /\ Abs(Get(d, "ey", 0)) <= hoop_center_tol_px
    /\ 100 * Abs(Radius(d) - hoop_radius_target_px) <= 15 * hoop_radius_target_px

\* now - self.start_time > self.timeout_s, at clock value t
TimedOut(t) == start_time # None /\ t - start_time[1] > timeout_s

CenterInImage_on_enter(d) ==
    /\ CanEnter
    /\ Clock(d)
    /\ start_time' = <<now'>>
    /\ cmd' = <<>>
    /\ Entered("CenterInImage")
    /\ UNCHANGED <<shared, local_position, dets, gains, planVars, scanVars, gotoVars>>
    /\ UNCHANGED <<commitVars, homeVars, hist>>

\* ds is what get_latest_vision_detections returns; <<>> also stands for an
\* accessor that is missing, raises or returns None
CenterInImage_on_update(d, ds, prims) ==
    /\ CanUpdate("CenterInImage")
    /\ Clock(d)
    /\ dets' = ds
    /\ IF ds # <<>> /\ ~IsDict(ds[1])
       THEN cmd' = <<>> /\ Raised
       ELSE cmd' = CenterCommand(prims, ds) /\ Updated
    /\ UNCHANGED <<shared, local_position, planVars, scanVars, centerVars, gotoVars>>
    /\ UNCHANGED <<commitVars, homeVars, hist>>

CenterInImage_check_status(d, ds) ==
    /\ CanCheck("CenterInImage")
    /\ Clock(d)
    /\ dets' = ds
    /\ cmd' = <<>>
    /\ IF ds = <<>>
       THEN Checked("continue")
       ELSE IF ~IsDict(ds[1])
            THEN Raised
            ELSE IF Centered(ds[1])
                 THEN Checked("complete")
                 ELSE IF TimedOut(now')
                      THEN Checked("complete")
                      ELSE Checked("continue")
    /\ UNCHANGED <<shared, local_position, planVars, scanVars, centerVars, gotoVars>>
    /\ UNCHANGED <<commitVars, homeVars, hist>>

----------------------------------------------------------------------------
(* CenterInImage on its own *)

\* detections at and around the centring limits, a hoop dict without pixel
\* fields, and a bare position tuple
PixelDets ==
    { [ex |-> 0, ey |-> 0, radius |-> 80],
      [ex |-> 8, ey |-> -8, radius |-> 92],
      [ex |-> -8, ey |-> 8, r |-> 68],
      [ex |-> 9, ey |-> 0, radius |-> 80],
      [ex |-> 0, ey |-> -9, radius |-> 80],
      [ex |-> 0, ey |-> 0, radius |-> 93],
      [ex |-> 0, ey |-> 0, radius |-> 67],
      [ex |-> 600, ey |-> -600, radius |-> 30] }

CenterDets ==
    {<<>>} \cup {<<d>> : d \in PixelDets}
           \cup { <<[position |-> Pt(1, 1, 0)]>>,
                  <<[tuple |-> Pt(1, 1, 0)]>>,
                  <<[ex |-> 9, ey |-> 0, radius |-> 80], [ex |-> 0, ey |-> 0, radius |-> 80]>> }

CenterDts == {0, 1, 6}

\* the shared context some earlier modes left
InitSharedPlanned ==
    /\ planned_route = EarlierRoute
    /\ hoops_discovered = <<EarlierRoute[1].hoop>>
    /\ hoops_traversed = <<>>
    /\ planned_written = EarlierRoute
    /\ traversed_at_plan = 0
    /\ points = <<>>
    /\ max_targets = 4

InitCenter ==
    /\ InitModes
    /\ InitSequencer
    /\ InitEnv
    /\ InitHome
    /\ InitSharedPlanned

NextCenter ==
    \/ \E d \in CenterDts : CenterInImage_on_enter(d)
    \/ \E d \in CenterDts, ds \in CenterDets, prims \in PrimSets :
           CenterInImage_on_update(d, ds, prims)
    \/ \E d \in CenterDts, ds \in CenterDets : CenterInImage_check_status(d, ds)
    \/ Exit

SpecCenter == InitCenter /\ [][NextCenter]_vars

\* check_status of the active CenterInImage has just answered
CenterChecked == mode = "CenterInImage" /\ pc = "checked"

\* seconds since on_enter
Elapsed == now - start_time[1]

\* C3: on a tick where more than timeout_s has passed since on_enter,
\* check_status reports complete whatever the vision provider returned.
C3_TimeoutCompletes ==
    (CenterChecked /\ Elapsed > timeout_s) => status = "complete"

\* C4: before the timeout, check_status reports complete exactly when there is
\* a detection whose first entry is within center_tol in ex and ey and within
\* 15% of the target radius, and continue in every other case.
C4_CompleteIffCentered ==
    (CenterChecked /\ Elapsed <= timeout_s) =>
        /\ status \in {"complete", "continue"}
        /\ status = "complete" <=>
               /\ dets # <<>>
               /\ Abs(Get(dets[1], "ex", 0)) <= hoop_center_tol_px
               /\ Abs(Get(dets[1], "ey", 0)) <= hoop_center_tol_px
               /\ 100 * Abs(Radius(dets[1]) - hoop_radius_target_px)
                      <= 15 * hoop_radius_target_px

\* a detection on the limits completes the mode before the timeout
C4_Witness ==
    /\ CenterChecked
    /\ Elapsed <= timeout_s
    /\ status = "complete"
    /\ dets # <<>>
    /\ Abs(Get(dets[1], "ex", 0)) = hoop_center_tol_px
    /\ Radius(dets[1]) > hoop_radius_target_px

\* C16: an on_update that gets no detection (the accessor is missing, raises
\* or returns nothing) issues no command and changes neither the mode's nor
\* the shared state, and a check_status that gets none reports continue.
C16_NoDetectionNoEffect ==
    [][/\ (CanUpdate("CenterInImage") /\ pc' = "updated" /\ dets' = <<>>)
           => /\ cmd' = <<>>
              /\ UNCHANGED <<shared, mode, status, centerVars>>
              /\ UNCHANGED <<planVars, scanVars, gotoVars, commitVars, homeVars>>
       /\ (CanCheck("CenterInImage") /\ pc' = "checked" /\ dets' = <<>>)
           => status' = "continue"]_vars

\* a tick without detection after a tick that had one
C16_Witness ==
    /\ mode = "CenterInImage"
    /\ pc = "updated"
    /\ status = "continue"
    /\ dets = <<>>
    /\ cmd = <<>>

\* C19: no detection entry, whatever its shape, makes a handler of
\* LaunchAndScan or CenterInImage raise.
C19_MalformedDetectionNeverRaises ==
    mode \in {"LaunchAndScan", "CenterInImage"} => pc # "raised"

----------------------------------------------------------------------------
(* CenterInImage constructed with other gains *)

\* largest gain magnitude, in thousandths (1000.0)
MaxGain == 1000000

GainSets ==
    { DefaultGains,
      [kx |-> 0, ky |-> 0, kz |-> 0, kyaw |-> 0],
      [kx |-> MaxGain, ky |-> MaxGain, kz |-> MaxGain, kyaw |-> MaxGain],
      [kx |-> -MaxGain, ky |-> 1, kz |-> -MaxGain, kyaw |-> -MaxGain] }

InitServo ==
    /\ InitModeFields
    /\ gains \in GainSets
    /\ InitSequencer
    /\ InitEnv
    /\ InitHome
    /\ InitSharedPlanned

NextServo ==
    \/ CenterInImage_on_enter(0)
    \/ \E ds \in CenterDets, prims \in PrimSets : CenterInImage_on_update(0, ds, prims)
    \/ \E ds \in CenterDets : CenterInImage_check_status(0, ds)
    \/ Exit

SpecServo == InitServo /\ [][NextServo]_vars

\* v limited to [-lim, lim]
Limited(v, lim) == IF v > lim THEN lim ELSE IF v < -lim THEN -lim ELSE v

\* C15: after an on_update that had a detection with pixel errors ex, ey, every
\* setpoint commanded is (-kx*ex, ky*ey, 0, kyaw*ex) with the first two
\* components limited to [-vmax_xy, vmax_xy] and the last to
\* [-vmax_yaw, vmax_yaw] (the velocity-only fallback carries the first three),
\* whatever the gains; it is all zero when ex = ey = 0.
C15_ClampedServoCommand ==
    (mode = "CenterInImage" /\ pc = "updated" /\ dets # <<>>) =>
        LET ex == Get(dets[1], "ex", 0)
            ey == Get(dets[1], "ey", 0)
        IN  \A i \in DOMAIN cmd :
                LET v == cmd[i].velocity
                IN  /\ Len(v) \in {3, 4}
                    /\ v[1] = Limited(-gains.kx * ex, vmax_xy)
                    /\ v[2] = Limited(gains.ky * ey, vmax_xy)
                    /\ v[3] = 0
                    /\ Abs(v[1]) <= vmax_xy
                    /\ Abs(v[2]) <= vmax_xy
                    /\ Len(v) = 4 =>
                           /\ v[4] = Limited(gains.kyaw * ex, vmax_yaw)
                           /\ Abs(v[4]) <= vmax_yaw
                    /\ (ex = 0 /\ ey = 0) => \A k \in DOMAIN v : v[k] = 0

\* the largest gains on a large pixel error: the command sits on the limits
C15_Witness ==
    /\ mode = "CenterInImage"
    /\ pc = "updated"
    /\ dets # <<>>
    /\ gains.kx = MaxGain
    /\ Abs(Get(dets[1], "ex", 0)) > hoop_center_tol_px
    /\ cmd # <<>>
    /\ Len(cmd[1].velocity) = 4
    /\ Abs(cmd[1].velocity[1]) = vmax_xy
    /\ Abs(cmd[1].velocity[4]) = vmax_yaw

----------------------------------------------------------------------------
(* LaunchAndScan *)

\* LaunchAndScan's constructor defaults: degrees, degrees per second, a count
spin_max_deg == 360

spin_rate_dps == 45

min_hoops_to_stop == 3

\* takeoff_alt_m, the default 3.0
takeoff_alt_m == 3 * Unit

\* math.radians(45.0) in thousandths
yaw_rate_rad == 785

\* the commands of on_enter: heartbeat, arm, then takeoff or, failing that, a
\* position setpoint above the origin
LaunchCommands(prims) ==
    (IF "heartbeat" \in prims THEN <<[heartbeat |-> TRUE]>> ELSE <<>>)
    \o (IF "arm" \in prims THEN <<[arm |-> TRUE]>> ELSE <<>>)
    \o (IF "takeoff" \in prims THEN <<[takeoff |-> takeoff_alt_m]>>
        ELSE IF "publish_position_setpoint" \in prims
             THEN <<[position |-> <<0, 0, -Abs(takeoff_alt_m)>>]>>
             ELSE <<>>)

\* the spin command of on_update
SpinCommand(prims) ==
    IF "publish_velocity_setpoint" \in prims THEN <<[velocity |-> <<0, 0, 0, yaw_rate_rad>>]>>
    ELSE IF "set_yaw_rate" \in prims THEN <<[yaw_rate |-> yaw_rate_rad]>>
    ELSE <<>>

IsIn(s, v) == \E i \in DOMAIN s : s[i] = v

\* every dict of ds appended, present already or not
RECURSIVE CollectEvery(_, _)
CollectEvery(acc, ds) ==
    IF ds = <<>> THEN acc
    ELSE IF IsDict(Head(ds))
         THEN CollectEvery(Append(acc, Head(ds)), Tail(ds))
         ELSE CollectEvery(acc, Tail(ds))

\* collected after the detections ds: every dict not yet present is appended
RECURSIVE Collect(_, _)
Collect(acc, ds) ==
    IF ds = <<>> THEN acc
    ELSE IF IsDict(Head(ds)) /\ ~IsIn(acc, Head(ds))
         THEN Collect(Append(acc, Head(ds)), Tail(ds))
         ELSE Collect(acc, Tail(ds))

\* the time of the last call forgotten: every dt is 0
LastOrNowForgets(t) == t

\* self.last_time or now
LastOrNow(t) == IF last_time = None \/ last_time[1] = 0 THEN t ELSE last_time[1]

\* len(self.collected) >= self.min_hoops_to_stop
EnoughHoops == Len(collected) >= min_hoops_to_stop

\* the sweep test with > for >=
ScanExhaustedStrict == scanned_deg > spin_max_deg

\* self.scanned_deg >= self.spin_max_deg
ScanExhausted == scanned_deg >= spin_max_deg

LaunchAndScan_on_enter(d, pose, prims) ==
    /\ CanEnter
    /\ Clock(d)
    /\ cmd' = LaunchCommands(prims)
    /\ last_time' = <<now'>>
    /\ scanned_deg' = 0
    /\ collected' = <<>>
    /\ local_position' = pose
    /\ scan_home_pose' = pose
    /\ Entered("LaunchAndScan")
    /\ UNCHANGED <<shared, dets, planVars, centerVars, gotoVars, commitVars, homeVars, hist>>

LaunchAndScan_on_update(d, ds, prims) ==
    /\ CanUpdate("LaunchAndScan")
    /\ Clock(d)
    /\ cmd' = SpinCommand(prims)
    /\ dets' = ds
    /\ collected' = Collect(collected, ds)
    /\ hoops_discovered' = collected'
    /\ last_time' = <<now'>>
    /\ scanned_deg' = scanned_deg + Abs(spin_rate_dps) * (now' - LastOrNow(now'))
    /\ Updated
    /\ UNCHANGED <<planned_route, hoops_traversed, has_home_pose, home_pose, local_position>>
    /\ UNCHANGED <<scan_home_pose, planVars, centerVars, gotoVars, commitVars, homeVars, hist>>

LaunchAndScan_check_status ==
    /\ CanCheck("LaunchAndScan")
    /\ cmd' = <<>>
    /\ IF EnoughHoops
       THEN /\ IF home_pose = None /\ scan_home_pose # None
               THEN has_home_pose' = TRUE /\ home_pose' = scan_home_pose
               ELSE UNCHANGED <<has_home_pose, home_pose>>
            /\ Checked("complete")
       ELSE /\ UNCHANGED <<has_home_pose, home_pose>>
            /\ IF ScanExhausted THEN Checked("complete") ELSE Checked("continue")
    /\ UNCHANGED <<planned_route, hoops_discovered, hoops_traversed, local_position, now, dets>>
    /\ UNCHANGED <<planVars, scanVars, centerVars, gotoVars, commitVars, homeVars, hist>>

----------------------------------------------------------------------------
(* LaunchAndScan on its own *)

\* what the vision accessor returns during a scan: nothing, hoop dicts (one
\* seen twice), a pixel detection, a bare tuple
ScanHoopA == [position |-> Pt(2, 0, 0)]

ScanHoopB == [position |-> Pt(1, 1, 0), bearing |-> 90]

ScanDets ==
    { <<>>,
      <<ScanHoopA>>,
      <<ScanHoopA, ScanHoopB>>,
      <<[tuple |-> Pt(1, 0, 0)], ScanHoopB, [ex |-> 0, ey |-> 0, radius |-> 80]>> }

ScanDts == {0, 1, 4}

ScanPoses == {None, Pt(0, 0, 1)}

InitScan ==
    /\ InitModes
    /\ InitSequencer
    /\ InitEnv
    /\ InitHome
    /\ planned_route = <<>>
    /\ hoops_discovered = <<>>
    /\ hoops_traversed = <<>>
    /\ planned_written = <<>>
    /\ traversed_at_plan = 0
    /\ points = <<>>
    /\ max_targets = 4

NextScan ==
    \/ \E d \in ScanDts, pose \in ScanPoses, prims \in PrimSets :
           LaunchAndScan_on_enter(d, pose, prims)
    \/ \E d \in ScanDts, ds \in ScanDets, prims \in PrimSets :
           LaunchAndScan_on_update(d, ds, prims)
    \/ LaunchAndScan_check_status
    \/ Exit

SpecScan == InitScan /\ [][NextScan]_vars

\* check_status of the active LaunchAndScan has just answered
ScanChecked == mode = "LaunchAndScan" /\ pc = "checked"

\* C9: check_status reports complete exactly when at least min_hoops_to_stop
\* detections are accumulated or at least spin_max_deg degrees are scanned,
\* and continue otherwise.
C9_CompleteIffCountOrSweep ==
    ScanChecked =>
        /\ status \in {"complete", "continue"}
        /\ status = "complete" <=>
               (Len(collected) >= min_hoops_to_stop \/ scanned_deg >= spin_max_deg)

\* the sweep ends the scan exactly at spin_max_deg, with too few detections
C9_Witness ==
    /\ ScanChecked
    /\ status = "complete"
    /\ Len(collected) < min_hoops_to_stop
    /\ scanned_deg = spin_max_deg

\* C10: the check_status call that reports complete leaves the shared home
\* pose what it was if one was recorded, and otherwise sets it to the pose
\* captured at on_enter.
C10_HomeCommittedOnCompletion ==
    [][(CanCheck("LaunchAndScan") /\ status' = "complete")
          => home_pose' = (IF home_pose # None THEN home_pose ELSE scan_home_pose)]_vars

\* no two entries of s are equal
NoRepeat(s) == \A i, j \in DOMAIN s : i # j => s[i] # s[j]

\* s is the beginning of t
IsPrefix(s, t) == Len(s) <= Len(t) /\ SubSeq(t, 1, Len(s)) = s

\* C20: on_enter empties the accumulated list; while LaunchAndScan is active
\* the list holds no two equal detections and every step keeps what it held
\* as its beginning, in order; and after every on_update hoops_discovered is
\* the accumulated list.
C20_AccumulatedDetections ==
    [][/\ (CanEnter /\ mode' = "LaunchAndScan") => collected' = <<>>
       /\ mode' = "LaunchAndScan" => NoRepeat(collected')
       /\ (mode = "LaunchAndScan" /\ mode' = "LaunchAndScan") => IsPrefix(collected, collected')
       /\ (CanUpdate("LaunchAndScan") /\ pc' = "updated") => hoops_discovered' = collected']_vars

\* a detection seen again, after two were accumulated, is not added
C20_Witness ==
    /\ mode = "LaunchAndScan"
    /\ pc = "updated"
    /\ Len(collected) = 2
    /\ dets = <<collected[1]>>
    /\ hoops_discovered = collected

\* C21: the first on_update after on_enter leaves scanned_deg at 0, and every
\* later on_update adds |spin_rate_dps| times the clock time since the
\* previous on_update (last_time holds the clock of the previous call); so
\* scanned_deg is |spin_rate_dps| times the time from the first update to the
\* last, and the time from on_enter to the first update is not counted.
C21_FirstUpdateAddsNothing ==
    [][(CanUpdate("LaunchAndScan") /\ pc' = "updated")
          => IF pc = "entered"
             THEN scanned_deg' = 0
             ELSE scanned_deg' = scanned_deg + Abs(spin_rate_dps) * (now' - last_time[1])]_vars

----------------------------------------------------------------------------
(* One activation of LaunchAndScan, ticked by the sequencer until it        *)
(* completes: on_enter once, then on_update and check_status every tick     *)
(* while the status is continue, the clock advancing between ticks.         *)

\* seconds from one tick to the next
TickDts == {1, 2}

ScanTick ==
    \E d \in TickDts, ds \in ScanDets, prims \in PrimSets : LaunchAndScan_on_update(d, ds, prims)

NextScanLive ==
    \/ \E pose \in ScanPoses, prims \in PrimSets : LaunchAndScan_on_enter(0, pose, prims)
    \/ ScanTick
    \/ LaunchAndScan_check_status

\* the sequencer calls update, then check_status, on every tick
SpecScanLive ==
    InitScan /\ [][NextScanLive]_vars /\ WF_vars(ScanTick) /\ WF_vars(LaunchAndScan_check_status)

\* C11: once LaunchAndScan is entered, the update / check_status loop leads to
\* a check_status that reports complete, whatever primitives the vehicle has
\* (none included) and whatever the vision provider returns (nothing included).
C11_ScanTerminates ==
    (mode = "LaunchAndScan" /\ pc = "entered") ~> (ScanChecked /\ status = "complete")

\* the scan completed on the sweep alone, no detection ever collected
C11_Witness ==
    /\ ScanChecked
    /\ status = "complete"
    /\ collected = <<>>
    /\ dets = <<>>
    /\ scanned_deg >= spin_max_deg

----------------------------------------------------------------------------
(* GoToPreApproach *)

\* waypoint_tol_m, the default 0.8
waypoint_tol_m == (4 * Unit) \div 5

\* the distance test with < for <=
WithinStrict(p, q, tol) == DistSq(p, q) < tol * tol

\* math.dist(p, q) <= tol
Within(p, q, tol) == DistSq(p, q) <= tol * tol

\* publish_position_setpoint(point)
PositionCommand(prims, point) ==
    IF "publish_position_setpoint" \in prims THEN <<[position |-> point]>> ELSE <<>>

\* publish_position_setpoint(point, yaw = bearing), else without the yaw
PositionYawCommand(prims, point, bearing) ==
    IF "publish_position_setpoint" \in prims /\ "position_yaw" \in prims
    THEN <<[position |-> point, yaw |-> bearing]>>
    ELSE PositionCommand(prims, point)

GoToPreApproach_on_enter ==
    /\ CanEnter
    /\ cmd' = <<>>
    /\ IF planned_route = <<>>
       THEN target' = None /\ UNCHANGED target_hoop
       ELSE /\ target' = planned_route[1].pre_approach
            /\ target_hoop' = <<planned_route[1].hoop>>
    /\ Entered("GoToPreApproach")
    /\ UNCHANGED <<shared, local_position, now, dets, planVars, scanVars, centerVars>>
    /\ UNCHANGED <<commitVars, homeVars, hist>>

GoToPreApproach_on_update(prims) ==
    /\ CanUpdate("GoToPreApproach")
    /\ cmd' = IF target = None THEN <<>>
              ELSE IF target_hoop # None /\ "bearing" \in DOMAIN target_hoop[1]
                   THEN PositionYawCommand(prims, target, target_hoop[1].bearing)
                   ELSE PositionCommand(prims, target)
    /\ Updated
    /\ UNCHANGED <<shared, local_position, now, dets, planVars, scanVars, centerVars>>
    /\ UNCHANGED <<gotoVars, commitVars, homeVars, hist>>

GoToPreApproach_check_status(pose) ==
    /\ CanCheck("GoToPreApproach")
    /\ cmd' = <<>>
    /\ IF target = None
       THEN Checked("complete") /\ UNCHANGED local_position
       ELSE /\ local_position' = pose
            /\ IF pose = None THEN Checked("continue")
               ELSE IF Within(pose, target, waypoint_tol_m) THEN Checked("complete")
               ELSE Checked("continue")
    /\ UNCHANGED <<shared, now, dets, planVars, scanVars, centerVars>>
    /\ UNCHANGED <<gotoVars, commitVars, homeVars, hist>>

----------------------------------------------------------------------------
(* CommitTraverse *)

\* traverse_dist, the default 4.0
traverse_dist == 4 * Unit

\* the tolerance check_status compares with, the literal 1.0
commit_tol == Unit

\* the normal on_enter flies along, times NormScale
TraverseNormal(hoop) ==
    IF "bearing" \in DOMAIN hoop
    THEN <<Cos(hoop.bearing), Sin(hoop.bearing), 0>>
    ELSE <<0, NormScale, 0>>

\* hoop_pos + normal * dist
Along(hoop_pos, n, dist) ==
    << hoop_pos[1] + RoundDiv(n[1] * dist, NormScale),
       hoop_pos[2] + RoundDiv(n[2] * dist, NormScale),
       hoop_pos[3] >>

\* the completed list without the popped entry
AppendLost(completed, rt) == completed

\* completed.append(route.pop(0)): the completed list
AppendPopped(completed, rt) == Append(completed, Head(rt))

\* the route with its first entry left in place
PopKept(rt) == rt

\* completed.append(route.pop(0)): the route
PopFront(rt) == Tail(rt)

CommitTraverse_on_enter ==
    /\ CanEnter
    /\ cmd' = <<>>
    /\ IF planned_route = <<>>
       THEN UNCHANGED <<start, end>>
       ELSE LET n == TraverseNormal(planned_route[1].hoop)
            IN  /\ start' = Along(planned_route[1].hoop_pos, n, -Unit)
                /\ end' = Along(planned_route[1].hoop_pos, n, traverse_dist)
    /\ Entered("CommitTraverse")
    /\ UNCHANGED <<shared, local_position, now, dets, planVars, scanVars, centerVars>>
    /\ UNCHANGED <<gotoVars, homeVars, hist>>

CommitTraverse_on_update(prims) ==
    /\ CanUpdate("CommitTraverse")
    /\ cmd' = IF end = None THEN <<>> ELSE PositionCommand(prims, end)
    /\ Updated
    /\ UNCHANGED <<shared, local_position, now, dets, planVars, scanVars, centerVars>>
    /\ UNCHANGED <<gotoVars, commitVars, homeVars, hist>>

CommitTraverse_check_status(pose) ==
    /\ CanCheck("CommitTraverse")
    /\ cmd' = <<>>
    /\ IF end = None
       THEN /\ Checked("complete")
            /\ UNCHANGED <<local_position, planned_route, hoops_traversed>>
       ELSE /\ local_position' = pose
            /\ IF pose = None
               THEN Checked("continue") /\ UNCHANGED <<planned_route, hoops_traversed>>
               ELSE IF Within(pose, end, commit_tol)
                    THEN /\ IF planned_route # <<>>
                            THEN /\ hoops_traversed' = AppendPopped(hoops_traversed, planned_route)
                                 /\ planned_route' = PopFront(planned_route)
                            ELSE UNCHANGED <<planned_route, hoops_traversed>>
                         /\ Checked("complete")
                    ELSE Checked("continue") /\ UNCHANGED <<planned_route, hoops_traversed>>
    /\ UNCHANGED <<hoops_discovered, has_home_pose, home_pose, now, dets>>
    /\ UNCHANGED <<planVars, scanVars, centerVars, gotoVars, commitVars, homeVars, hist>>

----------------------------------------------------------------------------
(* ReturnHome *)

\* tol, the default 1.0
home_tol == Unit

\* on_enter that also records the point it resolved as the shared home pose
ReturnHome_on_enter_recording(pose) ==
    /\ CanEnter
    /\ cmd' = <<>>
    /\ local_position' = pose
    /\ home' = IF home_pose # None THEN home_pose ELSE pose
    /\ home_pose' = home'
    /\ has_home_pose' = TRUE
    /\ entry_pose' = pose
    /\ Entered("ReturnHome")
    /\ UNCHANGED <<planned_route, hoops_discovered, hoops_traversed>>
    /\ UNCHANGED <<now, dets, planVars, scanVars, centerVars, gotoVars>>
    /\ UNCHANGED <<commitVars, planned_written, traversed_at_plan, prior_route>>

ReturnHome_on_enter(pose) ==
    /\ CanEnter
    /\ cmd' = <<>>
    /\ local_position' = pose
    /\ home' = IF home_pose # None THEN home_pose ELSE pose
    /\ entry_pose' = pose
    /\ Entered("ReturnHome")
    /\ UNCHANGED <<shared, now, dets, planVars, scanVars, centerVars, gotoVars>>
    /\ UNCHANGED <<commitVars, planned_written, traversed_at_plan, prior_route>>

ReturnHome_on_update(prims) ==
    /\ CanUpdate("ReturnHome")
    /\ cmd' = IF home = None THEN <<>> ELSE PositionCommand(prims, home)
    /\ Updated
    /\ UNCHANGED <<shared, local_position, now, dets, planVars, scanVars, centerVars>>
    /\ UNCHANGED <<gotoVars, commitVars, homeVars, hist>>

ReturnHome_check_status(pose) ==
    /\ CanCheck("ReturnHome")
    /\ cmd' = <<>>
    /\ local_position' = pose
    /\ IF pose = None \/ home = None THEN Checked("continue")
       ELSE IF Within(pose, home, home_tol) THEN Checked("complete")
       ELSE Checked("continue")
    /\ UNCHANGED <<shared, now, dets, planVars, scanVars, centerVars>>
    /\ UNCHANGED <<gotoVars, commitVars, homeVars, hist>>

----------------------------------------------------------------------------
(* GoToPreApproach and ReturnHome on their own *)

\* a route whose front hoop has no bearing
RouteNoBearing ==
    << [hoop |-> [position |-> Pt(2, 2, 1)],
        pre_approach |-> <<2 * Unit - pre_approach_dist, 2 * Unit, Unit>>,
        hoop_pos |-> Pt(2, 2, 1)] >>

NavRoutes == {<<>>, EarlierRoute, RouteNoBearing}

\* p moved by dx along x and dz along z
Moved(p, dx, dz) == <<p[1] + dx, p[2], p[3] + dz>>

\* the poses at point p, on the sphere of radius tol around it and just outside
PosesAround(p, tol) == {p, Moved(p, tol, 0), Moved(p, 0, -tol), Moved(p, tol + 1, 0), Moved(p, 1, tol)}

\* the vehicle is around a pre-approach point or the home pose, or its pose is
\* unavailable
NavPoses ==
    {None}
        \cup PosesAround(EarlierRoute[1].pre_approach, waypoint_tol_m)
        \cup PosesAround(RouteNoBearing[1].pre_approach, waypoint_tol_m)
        \cup UNION {PosesAround(h, home_tol) : h \in HomePoses}

InitNav ==
    /\ InitModes
    /\ InitSequencer
    /\ InitEnv
    /\ InitHome
    /\ planned_route \in NavRoutes
    /\ hoops_discovered = <<>>
    /\ hoops_traversed = <<>>
    /\ planned_written = planned_route
    /\ traversed_at_plan = 0
    /\ points = <<>>
    /\ max_targets = 4

NextNav ==
    \/ GoToPreApproach_on_enter
    \/ \E prims \in PrimSets : GoToPreApproach_on_update(prims)
    \/ \E pose \in NavPoses : GoToPreApproach_check_status(pose)
    \/ \E pose \in NavPoses : ReturnHome_on_enter(pose)
    \/ \E prims \in PrimSets : ReturnHome_on_update(prims)
    \/ \E pose \in NavPoses : ReturnHome_check_status(pose)
    \/ Exit

SpecNav == InitNav /\ [][NextNav]_vars

\* check_status of the active GoToPreApproach has just answered
GoToChecked == mode = "GoToPreApproach" /\ pc = "checked"

\* C13: check_status of GoToPreApproach reports complete exactly when the
\* route was empty at on_enter, or the pose is available and within
\* waypoint_tol_m (in 3D) of the front entry's pre-approach point, and continue
\* otherwise; with an empty route the mode issues no command.  (The route does
\* not change while GoToPreApproach is active, so planned_route is the route
\* on_enter read.)
C13_CompleteIffNoTargetOrReached ==
    /\ GoToChecked =>
           /\ status \in {"complete", "continue"}
           /\ status = "complete" <=>
                  \/ planned_route = <<>>
                  \/ /\ local_position # None
                     /\ DistSq(local_position, planned_route[1].pre_approach)
                            <= waypoint_tol_m * waypoint_tol_m
    /\ (mode = "GoToPreApproach" /\ planned_route = <<>>) => cmd = <<>>

\* the vehicle stands exactly waypoint_tol_m from the pre-approach point
C13_Witness ==
    /\ GoToChecked
    /\ status = "complete"
    /\ planned_route # <<>>
    /\ local_position # None
    /\ DistSq(local_position, planned_route[1].pre_approach) = waypoint_tol_m * waypoint_tol_m

\* check_status of the active ReturnHome has just answered
HomeChecked == mode = "ReturnHome" /\ pc = "checked"

\* the home point of the active ReturnHome: the recorded home pose, else the
\* pose at on_enter
HomePoint == IF home_pose # None THEN home_pose ELSE entry_pose

\* C14: ReturnHome holds the home point resolved at on_enter; check_status
\* reports complete exactly when the pose is within tol (in 3D) of it; and with
\* no home pose recorded, a check_status that finds the vehicle where on_enter
\* found it (or finds it at all, if on_enter found no pose) reports complete.
C14_HomeResolvedOnceAndReached ==
    /\ mode = "ReturnHome" => home = HomePoint
    /\ HomeChecked =>
           (status = "complete" <=>
                /\ local_position # None
                /\ HomePoint # None
                /\ DistSq(local_position, HomePoint) <= home_tol * home_tol)
    /\ (HomeChecked /\ home_pose = None /\ local_position # None
            /\ entry_pose \in {None, local_position})
           => status = "complete"

----------------------------------------------------------------------------
(* A mission of LaunchAndScan followed by ReturnHome, with no home pose     *)
(* supplied: the sequencer enters the scan once, ticks it with the clock    *)
(* running, leaves it when it reports complete and then runs ReturnHome.    *)

\* where the vehicle is when ReturnHome is entered and ticked
TripPoses == {None, Pt(0, 0, 1), Pt(2, 1, 1)}

InitTrip ==
    /\ InitModes
    /\ InitSequencer
    /\ InitEnv
    /\ has_home_pose \in BOOLEAN
    /\ home_pose = None
    /\ planned_route = <<>>
    /\ hoops_discovered = <<>>
    /\ hoops_traversed = <<>>
    /\ planned_written = <<>>
    /\ traversed_at_plan = 0
    /\ points = <<>>
    /\ max_targets = 4

\* exit() of a mode that reported complete
ExitComplete == status = "complete" /\ Exit

NextTrip ==
    \/ \E pose \in ScanPoses, prims \in PrimSets :
           last_time = None /\ LaunchAndScan_on_enter(0, pose, prims)
    \/ \E d \in ScanDts, ds \in ScanDets, prims \in PrimSets :
           LaunchAndScan_on_update(d, ds, prims)
    \/ LaunchAndScan_check_status
    \/ \E pose \in TripPoses : last_time # None /\ ReturnHome_on_enter(pose)
    \/ \E prims \in PrimSets : ReturnHome_on_update(prims)
    \/ \E pose \in TripPoses : ReturnHome_check_status(pose)
    \/ ExitComplete

SpecTrip == InitTrip /\ [][NextTrip]_vars

\* C23: when ReturnHome runs after a completed scan that captured a pose at
\* its on_enter, with no home pose supplied, the point ReturnHome holds,
\* commands and tests against is that captured pose, and the shared home pose
\* is that pose too.
C23_ReturnsToLaunchPose ==
    (mode = "ReturnHome" /\ scan_home_pose # None) =>
        /\ home = scan_home_pose
        /\ home_pose = scan_home_pose
        /\ \A i \in DOMAIN cmd : cmd[i].position = scan_home_pose

----------------------------------------------------------------------------
(* The mission: the sequencer runs the six modes in any order, any number   *)
(* of times, and may exit the active one at any tick.                      *)

\* entries in hoops_traversed beyond which no further traverse is entered
MaxTraversed == 2

\* the scan sees nothing, or two hoops and a pixel detection
MissionScanDets == { <<>>, <<ScanHoopA, ScanHoopB, [ex |-> 0, ey |-> 0, radius |-> 80]>> }

\* centring sees nothing or a centred hoop
MissionCenterDets == { <<>>, <<[ex |-> 0, ey |-> 0, radius |-> 80]>> }

\* the mission is followed tick by tick within one second of the clock
MissionDts == {0}

MissionPrims == {AllPrims}

\* where the vehicle takes off
LaunchPose == Pt(0, 0, 1)

\* when a mode is entered the vehicle is at the launch pose or its pose is
\* unavailable
MissionPoses == {None, LaunchPose}

\* when a mode checks its status the vehicle is at the launch pose or at the
\* setpoint sp the mode commands, or its pose is unavailable
PosesNear(sp) == {None, LaunchPose, sp}

Init ==
    /\ InitModes
    /\ InitSequencer
    /\ InitEnv
    /\ InitHome
    /\ planned_route = <<>>
    /\ hoops_discovered = <<>>
    /\ hoops_traversed = <<>>
    /\ planned_written = <<>>
    /\ traversed_at_plan = 0
    /\ points = <<>>
    /\ max_targets = 4

Next ==
    \/ \E pose \in MissionPoses, prims \in MissionPrims : LaunchAndScan_on_enter(0, pose, prims)
    \/ \E d \in MissionDts, ds \in MissionScanDets, prims \in MissionPrims :
           LaunchAndScan_on_update(d, ds, prims)
    \/ LaunchAndScan_check_status
    \/ \E pose \in MissionPoses : PlanRoute_on_enter(pose)
    \/ PlanRoute_on_update
    \/ PlanRoute_check_status
    \/ GoToPreApproach_on_enter
    \/ \E prims \in MissionPrims : GoToPreApproach_on_update(prims)
    \/ \E pose \in PosesNear(target) : GoToPreApproach_check_status(pose)
    \/ CenterInImage_on_enter(0)
    \/ \E ds \in MissionCenterDets, prims \in MissionPrims : CenterInImage_on_update(0, ds, prims)
    \/ \E ds \in MissionCenterDets : CenterInImage_check_status(0, ds)
    \/ (Len(hoops_traversed) < MaxTraversed /\ CommitTraverse_on_enter)
    \/ \E prims \in MissionPrims : CommitTraverse_on_update(prims)
    \/ \E pose \in PosesNear(end) : CommitTraverse_check_status(pose)
    \/ \E pose \in MissionPoses : ReturnHome_on_enter(pose)
    \/ \E prims \in MissionPrims : ReturnHome_on_update(prims)
    \/ \E pose \in PosesNear(home) : ReturnHome_check_status(pose)
    \/ Exit

Spec == Init /\ [][Next]_vars

\* C1: the check_status call of CommitTraverse that reports complete with a
\* route to traverse removes the front entry of planned_route and appends that
\* entry to hoops_traversed; on_enter, on_update and a check_status call that
\* reports continue change neither list.
C1_MovesOneEntry ==
    [][/\ (CanCheck("CommitTraverse") /\ status' = "complete" /\ planned_route # <<>>)
           => /\ planned_route' = Tail(planned_route)
              /\ hoops_traversed' = Append(hoops_traversed, Head(planned_route))
       /\ (mode' = "CommitTraverse" /\ ~(CanCheck("CommitTraverse") /\ status' = "complete"))
           => UNCHANGED <<planned_route, hoops_traversed>>]_vars

\* a traverse has completed and moved the first of two planned entries
C1_Witness ==
    /\ mode = "CommitTraverse"
    /\ pc = "checked"
    /\ status = "complete"
    /\ Len(planned_written) = 2
    /\ Len(planned_route) = 1
    /\ hoops_traversed # <<>>
    /\ hoops_traversed[Len(hoops_traversed)] = planned_written[1]

\* the entries appended to hoops_traversed since the last planning
TraversedSincePlan == SubSeq(hoops_traversed, traversed_at_plan + 1, Len(hoops_traversed))

\* C2: in every state, the entries traversed since PlanRoute wrote its route,
\* followed by the current planned_route, are the route it wrote.
C2_RouteConserved == TraversedSincePlan \o planned_route = planned_written

\* a route planned after an earlier traverse, partly traversed, with the
\* traverse mode exited
C2_Witness ==
    /\ traversed_at_plan >= 1
    /\ Len(TraversedSincePlan) >= 1
    /\ planned_route # <<>>
    /\ mode = "none"

\* C12: in an activation of CommitTraverse entered with an empty route,
\* on_update issues no command and check_status reports complete.  (The route
\* changes only in the check_status call that ends the activation, so an
\* empty planned_route at a call means an empty route at on_enter.)
C12_EmptyRouteCompletesWithoutMotion ==
    [][/\ (CanUpdate("CommitTraverse") /\ pc' = "updated" /\ planned_route = <<>>)
           => cmd' = <<>>
       /\ (CanCheck("CommitTraverse") /\ pc' = "checked" /\ planned_route = <<>>)
           => status' = "complete"]_vars

\* C22: a step of GoToPreApproach, CenterInImage or ReturnHome changes none
\* of planned_route, hoops_discovered, hoops_traversed and the home pose; a
\* step of PlanRoute changes none of them but planned_route; a step of
\* LaunchAndScan changes neither planned_route nor hoops_traversed; a step of
\* CommitTraverse changes neither hoops_discovered nor the home pose.  (The
\* steps of a mode are those that end with it active.)
C22_SingleWriter ==
    [][/\ mode' \in {"GoToPreApproach", "CenterInImage", "ReturnHome"}
           => UNCHANGED <<planned_route, hoops_discovered, hoops_traversed,
                          has_home_pose, home_pose>>
       /\ mode' = "PlanRoute"
           => UNCHANGED <<hoops_discovered, hoops_traversed, has_home_pose, home_pose>>
       /\ mode' = "LaunchAndScan" => UNCHANGED <<planned_route, hoops_traversed>>
       /\ mode' = "CommitTraverse"
           => UNCHANGED <<hoops_discovered, has_home_pose, home_pose>>]_vars

\* ReturnHome has answered with every shared field filled by its writer and
\* no home pose recorded
C22_Witness ==
    /\ HomeChecked
    /\ home_pose = None
    /\ home # None
    /\ planned_route # <<>>
    /\ hoops_traversed # <<>>
    /\ hoops_discovered # <<>>

====
